---- MODULE Spec2Model ----
(***************************************************************************)
(* agent-trace: the trace store (git notes under refs/notes/agent-trace),  *)
(* its consolidation merge, the self-healing of the notes reference and    *)
(* the staging buffer, modelled from lib/git-notes.ts (the version with    *)
(* consolidateTraces), lib/trace-store.ts and lib/git-hooks.ts.            *)
(*                                                                         *)
(* git itself is the environment.  Its state is the notes reference        *)
(* (absent, bound to a notes commit, bound to a bare tree, or bound to an  *)
(* object that is no tree: "broken"), the commits made so far and one      *)
(* note body per revision.  Each git command the code runs is a function   *)
(* of that state, with the exit statuses git 2.39 gives.                   *)
(*                                                                         *)
(* Spec is the notes store with its callers' environment (commits, a run   *)
(* of the superseded ensureNotesRef, notes left by other tools).           *)
(* SpecCapture adds the capture and flush paths through the staging file.  *)
(* SpecMerge is the write path alone over a wider set of record shapes.    *)
(* SpecFlush is the flush of a staging file written before the first       *)
(* commit, SpecFlushFair the same with the post-commit hook's scheduling.  *)
(* SpecQuery is the read side: the diff parser and matcher of              *)
(* analyze/git-utils.ts and analyze/analyzer.ts, the per-file attribution  *)
(* of dashboard/api.ts, the validator and the report aggregation, each     *)
(* applied to the note of one commit.                                      *)
(* SpecRace is the post-commit flush split at its file read, running      *)
(* beside the capture hooks that append to the same staging file.          *)
(***************************************************************************)
EXTENDS Integers, Sequences, FiniteSets, TLC

\* Bounds of the model.
MaxCommits == 2
MaxStaged == 2
MaxFlush == 3

\* The revision names: the i-th commit, whether or not it has been made yet.
Revs == 1..MaxCommits

None == "none"

--------------------------------------------------------------------------
\* The record shape of lib/schemas.ts.

\* contributor, contributor_model_id: the range's own contributor (type and
\* model_id), or None.
RngBy(s, e, t, m) ==
  [start_line |-> s, end_line |-> e, contributor |-> t, contributor_model_id |-> m]

Rng(s, e) == RngBy(s, e, None, None)

Conv(u, t, m, rs) == [url |-> u, ctype |-> t, model_id |-> m, ranges |-> rs]

File(p, cs) == [path |-> p, conversations |-> cs]

\* wf: the scalar fields pass the schema (version pattern, uuid id, datetime
\* timestamp) and the text is parseable JSON.  vcs: the vcs revision, or None.
\* cid: metadata.conversation_id, or None.
Rec(i, ts, c, fs) ==
  [id |-> i, timestamp |-> ts, vcs |-> None, tool |-> None, cid |-> c,
   files |-> fs, wf |-> TRUE]

ContributorTypes == {"human", "ai", "mixed", "unknown"}

RangeSchema(r) == r.start_line >= 1 /\ r.end_line >= 1

ConversationSchema(c) ==
  /\ c.ctype \in ContributorTypes \cup {None}
  /\ \A i \in 1..Len(c.ranges) :
       /\ RangeSchema(c.ranges[i])
       /\ c.ranges[i].contributor \in ContributorTypes \cup {None}

FileSchema(f) ==
  \A i \in 1..Len(f.conversations) : ConversationSchema(f.conversations[i])

TraceRecordSchema(t) ==
  /\ t.wf
  /\ \A i \in 1..Len(t.files) : FileSchema(t.files[i])

--------------------------------------------------------------------------
\* consolidateTraces.

NoConversation == "no-conversation"

ConversationKey(t) ==
  IF /\ Len(t.files) > 0
     /\ Len(t.files[1].conversations) > 0
     /\ t.files[1].conversations[1].url # None
  THEN t.files[1].conversations[1].url
  ELSE IF t.cid # None THEN t.cid ELSE NoConversation

\* The keys of a list of traces in first-seen order (the Map's insertion order).
RECURSIVE GroupKeys(_)
GroupKeys(traces) ==
  IF traces = <<>> THEN <<>>
  ELSE LET rest == GroupKeys(SubSeq(traces, 1, Len(traces) - 1))
           k == ConversationKey(traces[Len(traces)])
       IN IF \E i \in 1..Len(rest) : rest[i] = k THEN rest ELSE Append(rest, k)

SameRange(a, b) == a.start_line = b.start_line /\ a.end_line = b.end_line

\* Push every incoming range whose start-end key is not yet in the set.
RECURSIVE MergeRanges(_, _)
MergeRanges(existing, incoming) ==
  IF incoming = <<>> THEN existing
  ELSE LET acc == MergeRanges(existing, SubSeq(incoming, 1, Len(incoming) - 1))
           r == incoming[Len(incoming)]
       IN IF \E i \in 1..Len(acc) : SameRange(acc[i], r) THEN acc ELSE Append(acc, r)

SameContributor(c, d) == c.ctype = d.ctype /\ c.model_id = d.model_id

\* One conversation into a file entry's conversation list.
MergeConversation(convs, conv) ==
  IF \E i \in 1..Len(convs) : SameContributor(convs[i], conv)
  THEN LET i == CHOOSE j \in 1..Len(convs) :
                  /\ SameContributor(convs[j], conv)
                  /\ \A k \in 1..(j - 1) : ~SameContributor(convs[k], conv)
       IN [convs EXCEPT ![i].ranges = MergeRanges(convs[i].ranges, conv.ranges)]
  ELSE Append(convs, conv)

RECURSIVE MergeConversations(_, _)
MergeConversations(convs, incoming) ==
  IF incoming = <<>> THEN convs
  ELSE MergeConversation(
         MergeConversations(convs, SubSeq(incoming, 1, Len(incoming) - 1)),
         incoming[Len(incoming)])

\* One file entry into the file map (a list in insertion order).
MergeFile(fileMap, file) ==
  LET withEntry ==
        IF \E i \in 1..Len(fileMap) : fileMap[i].path = file.path
        THEN fileMap
        ELSE Append(fileMap, File(file.path, <<>>))
      i == CHOOSE j \in 1..Len(withEntry) : withEntry[j].path = file.path
  IN [withEntry EXCEPT ![i].conversations =
        MergeConversations(withEntry[i].conversations, file.conversations)]

RECURSIVE MergeFiles(_, _)
MergeFiles(fileMap, files) ==
  IF files = <<>> THEN fileMap
  ELSE MergeFile(MergeFiles(fileMap, SubSeq(files, 1, Len(files) - 1)),
                 files[Len(files)])

RECURSIVE MergeGroupFiles(_)
MergeGroupFiles(group) ==
  IF group = <<>> THEN <<>>
  ELSE MergeFiles(MergeGroupFiles(SubSeq(group, 1, Len(group) - 1)),
                  group[Len(group)].files)

\* A group of two or more: the first trace with the merged files.
ConsolidateGroup(group) ==
  IF Len(group) = 1 THEN group[1]
  ELSE [group[1] EXCEPT !.files = MergeGroupFiles(group)]

SelectKey(traces, k) ==
  LET Test(t) == ConversationKey(t) = k IN SelectSeq(traces, Test)

consolidateTraces(traces) ==
  IF Len(traces) <= 1 THEN traces
  ELSE LET keys == GroupKeys(traces)
       IN [g \in 1..Len(keys) |-> ConsolidateGroup(SelectKey(traces, keys[g]))]

--------------------------------------------------------------------------
\* The git repository: what each command the code runs does and returns.

NoNote == [kind |-> "none", items |-> <<>>]

ArrayBody(items) == [kind |-> "array", items |-> items]

ObjectBody(item) == [kind |-> "object", items |-> <<item>>]

\* A note whose text is not JSON.
GarbageBody == [kind |-> "garbage", items |-> <<>>]

EmptyNotes == [r \in Revs |-> NoNote]

Git(rf, ns, cs) == [ref |-> rf, notes |-> ns, commits |-> cs]

\* git rev-parse HEAD
HeadExists(g) == g.commits > 0

RevResolves(g, rev) == rev \in 1..g.commits

\* git show-ref --verify --quiet refs/notes/agent-trace
ShowRefOk(g) == g.ref \in {"commit", "tree", "broken"}

\* git notes list: fails with "Failed to read notes tree" on a reference that
\* is bound to an object that is no tree.
NotesListOk(g) == g.ref # "broken"

\* git update-ref -d refs/notes/agent-trace (status 0 also when it is absent)
UpdateRefDelete(g) == Git("absent", EmptyNotes, g.commits)

\* A variant that binds the reference to an empty blob.
UpdateRefEmptyBlob(g) == [ref |-> "broken", notes |-> g.notes, commits |-> g.commits]

\* git mktree </dev/null, then git update-ref refs/notes/agent-trace <tree>
UpdateRefEmptyTree(g) == Git("tree", EmptyNotes, g.commits)

\* git notes show <rev>: 128 for a revision that does not resolve and for a
\* broken reference, 1 when the revision has no note, else the note's text.
NotesShow(g, rev) ==
  IF ~RevResolves(g, rev) THEN [status |-> 128, body |-> NoNote]
  ELSE IF g.ref = "broken" THEN [status |-> 128, body |-> NoNote]
  ELSE IF g.ref # "commit" \/ g.notes[rev] = NoNote
       THEN [status |-> 1, body |-> NoNote]
       ELSE [status |-> 0, body |-> g.notes[rev]]

\* git notes add -f -F - <rev>: "failed to resolve" for a bad revision, "Failed
\* to read notes tree" (the broken-reference signature) on a broken reference,
\* "Failed to find/parse commit" on a reference bound to a bare tree.
NotesAddOutcome(g, rev) ==
  IF ~RevResolves(g, rev) THEN "other"
  ELSE IF g.ref = "broken" THEN "sig"
  ELSE IF g.ref = "tree" THEN "other"
  ELSE "ok"

NotesAdd(g, rev, body) ==
  IF NotesAddOutcome(g, rev) = "ok"
  THEN Git("commit", [g.notes EXCEPT ![rev] = body], g.commits)
  ELSE g

\* Another process rebinds the reference to an object that is no tree.
Interfere(how, g) ==
  IF how = "corrupt" THEN Git("broken", EmptyNotes, g.commits) ELSE g

--------------------------------------------------------------------------
\* ensureNotesRef: the repository it leaves.  No command outside a try block
\* fails in a repository, so it returns normally.

\* A variant that leaves an unlistable reference alone.
NeverDeletes(g) == FALSE

\* A variant that deletes whatever reference exists.
AlwaysDeletes(g) == g.ref # "absent"

EnsureDeletes(g) == ShowRefOk(g) /\ ~NotesListOk(g)

EnsureCreate(g) ==
  IF HeadExists(g)
  THEN \* notes add -m init HEAD, then notes remove HEAD
       Git("commit", EmptyNotes, g.commits)
  ELSE UpdateRefEmptyTree(g)

ensureNotesRef(g) ==
  LET g1 == IF EnsureDeletes(g) THEN UpdateRefDelete(g) ELSE g
  IN IF ShowRefOk(g1) THEN g1 ELSE EnsureCreate(g1)

\* ensureNotesRef of the superseded lib/git-notes.ts: on an absent reference
\* "notes add -m '' HEAD" creates nothing, "notes remove HEAD" then fails, and
\* the fallback binds the reference to an empty blob.
LegacyEnsure(g) ==
  IF ShowRefOk(g) THEN g ELSE Git("broken", EmptyNotes, g.commits)

--------------------------------------------------------------------------
\* readTracesFromNotes.

\* A variant that gives up at the first item that is no record.
RECURSIVE ParseUntilInvalid(_)
ParseUntilInvalid(items) ==
  IF items = <<>> \/ ~TraceRecordSchema(items[1]) THEN <<>>
  ELSE <<items[1]>> \o ParseUntilInvalid(Tail(items))

RECURSIVE ParseValid(_)
ParseValid(items) ==
  IF items = <<>> THEN <<>>
  ELSE LET rest == ParseValid(SubSeq(items, 1, Len(items) - 1))
           x == items[Len(items)]
       IN IF TraceRecordSchema(x) THEN Append(rest, x) ELSE rest

\* A variant that raises on every failure but status 1.
readStrict(g, rev) ==
  LET shown == NotesShow(g, rev)
  IN IF shown.status = 1
     THEN [raised |-> FALSE, traces |-> <<>>, cause |-> "absent"]
     ELSE IF shown.status = 128
     THEN [raised |-> TRUE, traces |-> <<>>, cause |-> "fatal"]
     ELSE IF shown.body.kind = "garbage"
     THEN [raised |-> TRUE, traces |-> <<>>, cause |-> "json"]
     ELSE [raised |-> FALSE, traces |-> ParseValid(shown.body.items),
           cause |-> "note"]

\* cause: "note" a note was read, "absent" status 1, "fatal" status 128,
\* "json" the text is not JSON.
readTracesFromNotes(g, rev) ==
  LET shown == NotesShow(g, rev)
  IN IF shown.status = 1
     THEN [raised |-> FALSE, traces |-> <<>>, cause |-> "absent"]
     ELSE IF shown.status = 128
     THEN [raised |-> FALSE, traces |-> <<>>, cause |-> "fatal"]
     ELSE IF shown.body.kind = "garbage"
     THEN [raised |-> TRUE, traces |-> <<>>, cause |-> "json"]
     ELSE [raised |-> FALSE, traces |-> ParseValid(shown.body.items),
           cause |-> "note"]

\* git rev-list from..to: the revisions after `from` up to `to`, newest first.
RevList(g, from, to) ==
  IF from >= to THEN <<>>
  ELSE [i \in 1..(to - from) |-> to + 1 - i]

RECURSIVE ReadAllOf(_, _)
ReadAllOf(g, revs) ==
  IF revs = <<>> THEN [raised |-> FALSE, traces |-> <<>>]
  ELSE LET rest == ReadAllOf(g, SubSeq(revs, 1, Len(revs) - 1))
           one == readTracesFromNotes(g, revs[Len(revs)])
       IN [raised |-> rest.raised \/ one.raised,
           traces |-> rest.traces \o one.traces]

\* readTracesFromNotesRange: any failure is logged and gives the empty list.
readTracesFromNotesRange(g, from, to) ==
  IF ~RevResolves(g, from) \/ ~RevResolves(g, to)
  THEN [raised |-> FALSE, traces |-> <<>>, cause |-> "fatal"]
  ELSE LET all == ReadAllOf(g, RevList(g, from, to))
       IN IF all.raised
          THEN [raised |-> FALSE, traces |-> <<>>, cause |-> "json"]
          ELSE [raised |-> FALSE, traces |-> all.traces, cause |-> "note"]

--------------------------------------------------------------------------
\* writeTracesToNotes.

Ids(traces) == {traces[i].id : i \in 1..Len(traces)}

NewTraces(existing, traces) ==
  LET Fresh(t) == t.id \notin Ids(existing) IN SelectSeq(traces, Fresh)

\* A variant that stores the new traces alone.
WriteContentFresh(g, rev, traces) == ArrayBody(consolidateTraces(traces))

\* The note text: the consolidated union of the stored and the new traces.
WriteContent(g, rev, traces) ==
  LET rd == readTracesFromNotes(g, rev)
      existing == IF rd.raised THEN <<>> ELSE rd.traces
  IN ArrayBody(consolidateTraces(existing \o NewTraces(existing, traces)))

\* A variant that retries after any failure.
RetryAlways(outcome) == TRUE

\* Whether a failed first attempt is followed by the repair and one retry.
RetryOn(outcome) == outcome = "sig"

\* What a call that runs no note-add reports.
NotWritten(g) ==
  [git |-> g, raised |-> FALSE, adds |-> 0, first |-> None, retry |-> None]

\* i1, i2: what another process does to the reference before the first
\* attempt and before the retry.  adds counts the attempts to add the note.
writeTracesToNotes(g, rev, traces, i1, i2) ==
  IF traces = <<>>
  THEN NotWritten(g)
  ELSE
    LET content == WriteContent(g, rev, traces)
        g1 == Interfere(i1, ensureNotesRef(g))
        first == NotesAddOutcome(g1, rev)
        g2 == Interfere(i2, ensureNotesRef(UpdateRefDelete(g1)))
        retry == NotesAddOutcome(g2, rev)
    IN IF first = "ok"
       THEN [git |-> NotesAdd(g1, rev, content), raised |-> FALSE, adds |-> 1,
             first |-> first, retry |-> None]
       ELSE IF ~RetryOn(first)
       THEN [git |-> g1, raised |-> TRUE, adds |-> 1, first |-> first,
             retry |-> None]
       ELSE [git |-> NotesAdd(g2, rev, content), raised |-> retry # "ok",
             adds |-> 2, first |-> first, retry |-> retry]

--------------------------------------------------------------------------
\* The capture events of the model.  T1 and T2 come from one conversation and
\* overlap; T2 was recorded before T1.  T3 is a tab edit of two one-line
\* edits, both placed at line 1.

T1 == Rec(1, 2, "c1", <<File("a", <<Conv("u1", "ai", "m1", <<Rng(1, 5)>>)>>)>>)

T2 == Rec(2, 1, "c1",
          <<File("a", <<Conv("u1", "ai", "m1", <<Rng(1, 5), Rng(6, 9)>>)>>)>>)

T3 == Rec(3, 3, "c2",
          <<File("b", <<Conv(None, "human", None, <<Rng(1, 1), Rng(1, 1)>>)>>)>>)

\* More shapes the schema admits.  T4 is a later tab edit in T3's session.
\* T1b is T1 delivered again once its conversation has moved to another url.
\* E1 names a file with no conversation yet; E2, of the same session, lists a
\* hand edit first and then the conversation that touched E1's file.
T4 == Rec(4, 4, "c2",
          <<File("b", <<Conv(None, "human", None, <<Rng(1, 1), Rng(2, 2)>>)>>)>>)

T1b == Rec(1, 2, "c1", <<File("a", <<Conv("u2", "ai", "m1", <<Rng(1, 5)>>)>>)>>)

E1 == Rec(5, 5, "c3", <<File("a", <<>>)>>)

E2 == Rec(6, 6, "c3",
          <<File("b", <<Conv(None, "human", None, <<Rng(3, 3)>>)>>),
            File("a", <<Conv("u1", "ai", "m1", <<Rng(1, 5)>>)>>)>>)

MergeRecords == {T1, T2, T3, T4, T1b, E1, E2}

MergeBatches ==
  {<<T1>>, <<T2>>, <<T3>>, <<T4>>, <<E1>>, <<E2>>, <<T1, T1b>>, <<T3, T4>>}

\* A line or note element that fails the schema.
Malformed == [Rec(9, 0, None, <<>>) EXCEPT !.wf = FALSE]

\* The lists handed to a write: single records of two conversations, and one
\* record delivered twice in one list.
Batches == {<<T1>>, <<T2>>, <<T3>>, <<T2, T2>>}

\* What the capture hooks hand to appendTrace.
Captures == {T1, T2}

\* The lists written directly while captures and flushes go on.
CaptureBatches == {<<T2>>, <<T1, T2>>}

\* Notes another tool left on a revision: text that is no JSON, a single
\* record, and an array with an element that fails the schema.
ForeignBodies == {GarbageBody, ObjectBody(T3), ArrayBody(<<Malformed, T1>>)}

--------------------------------------------------------------------------
\* The state.

VARIABLES
  commits,   \* the number of commits; HEAD is the newest
  ref,       \* the notes reference: "absent", "commit", "tree" or "broken"
  notes,     \* the note body of each revision
  staging,   \* .agent-trace/staging.jsonl: whether it exists, and its lines
  last,      \* what the last operation did and returned
  query,     \* a query's commit content and what the query returned
  hook       \* a post-commit flush in steps: its position and what it read

vars == <<commits, ref, notes, staging, last, query, hook>>

Cur == Git(ref, notes, commits)

NoStaging == [exists |-> FALSE, lines |-> <<>>]

\* No flush is under way.
NoHook == [pc |-> "idle", rev |-> 0, lines |-> <<>>]

\* No query was made.
NoQuery == [diff |-> <<>>, op |-> "none"]

\* The (file path, start_line, end_line) ranges of a record, of a list.
RecRanges(t) ==
  {<<t.files[f].path, t.files[f].conversations[c].ranges[r].start_line,
     t.files[f].conversations[c].ranges[r].end_line>> :
     <<f, c, r>> \in
       {x \in (1..Len(t.files)) \X (1..2) \X (1..3) :
          /\ x[2] <= Len(t.files[x[1]].conversations)
          /\ x[3] <= Len(t.files[x[1]].conversations[x[2]].ranges)}}

TracesRanges(traces) == UNION {RecRanges(traces[i]) : i \in 1..Len(traces)}

\* given: the ranges of the valid records the operation was handed, or read
\* from the staging file.
Obs(op) ==
  [op |-> op, raised |-> FALSE, adds |-> 0, first |-> None, retry |-> None,
   deleted |-> FALSE, cause |-> None, empty |-> TRUE, quiet |-> TRUE,
   staged |-> FALSE, given |-> {}]

SetGit(g) ==
  /\ commits' = g.commits
  /\ ref' = g.ref
  /\ notes' = g.notes

Init ==
  /\ commits = 0
  /\ ref = "absent"
  /\ notes = EmptyNotes
  /\ staging = NoStaging
  /\ query = NoQuery
  /\ hook = NoHook
  /\ last = Obs("init")

\* git commit
Commit ==
  /\ commits < MaxCommits
  /\ commits' = commits + 1
  /\ UNCHANGED <<ref, notes, staging>>
  /\ UNCHANGED <<query, hook>>
  /\ last' = Obs("commit")

\* A run of the superseded ensureNotesRef.
LegacyEnsureNotesRef ==
  /\ ~ShowRefOk(Cur)
  /\ SetGit(LegacyEnsure(Cur))
  /\ UNCHANGED staging
  /\ UNCHANGED <<query, hook>>
  /\ last' = Obs("legacy")

\* git notes add by another tool (without -f, so only where no note is).
ForeignNote(rev, body) ==
  /\ RevResolves(Cur, rev)
  /\ ref \in {"absent", "commit"}
  /\ notes[rev] = NoNote
  /\ SetGit(NotesAdd(Cur, rev, body))
  /\ UNCHANGED staging
  /\ UNCHANGED <<query, hook>>
  /\ last' = Obs("foreign")

EnsureNotesRef ==
  /\ SetGit(ensureNotesRef(Cur))
  /\ UNCHANGED staging
  /\ UNCHANGED <<query, hook>>
  /\ last' = [Obs("ensure") EXCEPT !.deleted = EnsureDeletes(Cur)]

WriteObs(op, w, given, i1, i2) ==
  [Obs(op) EXCEPT !.raised = w.raised, !.adds = w.adds,
     !.given = TracesRanges(ParseValid(given)),
     !.first = w.first, !.retry = w.retry,
     !.quiet = (i1 = "quiet" /\ (w.adds < 2 \/ i2 = "quiet"))]

WriteTraces(rev, traces, i1, i2) ==
  LET w == writeTracesToNotes(Cur, rev, traces, i1, i2)
  IN /\ SetGit(w.git)
     /\ UNCHANGED staging
     /\ UNCHANGED <<query, hook>>
     /\ last' = WriteObs("write", w, traces, i1, i2)

ReadTraces(rev) ==
  LET rd == readTracesFromNotes(Cur, rev)
  IN /\ UNCHANGED <<commits, ref, notes, staging>>
     /\ UNCHANGED <<query, hook>>
     /\ last' = [Obs("read") EXCEPT !.raised = rd.raised,
                   !.cause = rd.cause, !.empty = (rd.traces = <<>>)]

ReadTracesRange(from, to) ==
  LET rd == readTracesFromNotesRange(Cur, from, to)
  IN /\ UNCHANGED <<commits, ref, notes, staging>>
     /\ UNCHANGED <<query, hook>>
     /\ last' = [Obs("readRange") EXCEPT !.raised = rd.raised,
                   !.cause = rd.cause, !.empty = (rd.traces = <<>>)]

\* git notes list: one line for each note, the name of the note object first
\* and the name of the annotated commit second.
NotesList(g) ==
  IF g.ref # "commit" THEN <<>>
  ELSE LET noted == SelectSeq([r \in 1..g.commits |-> r],
                              LAMBDA r : g.notes[r] # NoNote)
       IN [k \in 1..Len(noted) |-> [note |-> noted[k], commit |-> noted[k]]]

\* getCommitsWithTraces: repairs the reference, then takes the first column
\* of every listed line.
getCommitsWithTraces(g) ==
  LET g1 == ensureNotesRef(g)
      listed == NotesList(g1)
  IN [git |-> g1,
      shas |-> [k \in 1..Len(listed) |-> [object |-> "note", of |-> listed[k].note]]]

\* readTracesFromNotes of a listed name: git notes show of a note object
\* exits with 1 (no note found for object), of a commit it shows its note.
readTracesOfListed(g, sha) ==
  IF sha.object = "commit" THEN readTracesFromNotes(g, sha.of).traces ELSE <<>>

RECURSIVE ReadListed(_, _)
ReadListed(g, shas) ==
  IF shas = <<>> THEN <<>>
  ELSE readTracesOfListed(g, Head(shas)) \o ReadListed(g, Tail(shas))

\* readTraces without a commit: the notes of the listed names, then the
\* lines of the staging file that parse.
readTraces(g, st) ==
  LET c == getCommitsWithTraces(g)
  IN [git |-> c.git,
      traces |-> ReadListed(c.git, c.shas)
                   \o (IF st.exists THEN ParseValid(st.lines) ELSE <<>>)]

ReadAll ==
  LET rd == readTraces(Cur, staging)
  IN /\ SetGit(rd.git)
     /\ UNCHANGED staging
     /\ UNCHANGED <<query, hook>>
     /\ last' = [Obs("readAll") EXCEPT !.empty = (rd.traces = <<>>)]

\* What appendFileSync leaves: the file with one more line.
StagingAppend(st, trace) == [exists |-> TRUE, lines |-> Append(st.lines, trace)]

\* appendTrace: the note of HEAD, or the staging file when there is no HEAD
\* or the write raises.
appendTrace(g, st, trace, i1, i2) ==
  LET g1 == ensureNotesRef(g)
      w == writeTracesToNotes(g1, g1.commits, <<trace>>, i1, i2)
  IN IF HeadExists(g1) /\ ~w.raised
     THEN [git |-> w.git, staging |-> st, staged |-> FALSE, w |-> w]
     ELSE [git |-> IF HeadExists(g1) THEN w.git ELSE g1,
           staging |-> StagingAppend(st, trace), staged |-> TRUE,
           w |-> IF HeadExists(g1) THEN w ELSE NotWritten(g1)]

AppendTrace(trace, i1, i2) ==
  LET a == appendTrace(Cur, staging, trace, i1, i2)
  IN /\ Len(a.staging.lines) <= MaxStaged
     /\ SetGit(a.git)
     /\ staging' = a.staging
     /\ UNCHANGED <<query, hook>>
     /\ last' = [WriteObs("append", a.w, <<trace>>, i1, i2) EXCEPT
                   !.raised = FALSE, !.staged = a.staged]

\* A variant that stops reading at the first line that is no record.
RECURSIVE StagedUntilBad(_, _)
StagedUntilBad(lines, commitSha) ==
  IF lines = <<>> \/ ~TraceRecordSchema(lines[1]) THEN <<>>
  ELSE <<lines[1]>> \o StagedUntilBad(Tail(lines), commitSha)

\* The lines that parse and pass the schema, each with its vcs revision set
\* to the commit when it has a vcs entry.
RECURSIVE StagedTraces(_, _)
StagedTraces(lines, commitSha) ==
  IF lines = <<>> THEN <<>>
  ELSE LET rest == StagedTraces(SubSeq(lines, 1, Len(lines) - 1), commitSha)
           x == lines[Len(lines)]
       IN IF TraceRecordSchema(x)
          THEN Append(rest, IF x.vcs # None THEN [x EXCEPT !.vcs = commitSha] ELSE x)
          ELSE rest

\* A variant that clears the staging file whatever the write did.
attachThenUnlink(g, st, i1, i2) ==
  LET g1 == ensureNotesRef(g)
      traces == StagedTraces(st.lines, g1.commits)
      w == writeTracesToNotes(g1, g1.commits, traces, i1, i2)
  IN IF ~st.exists
     THEN [git |-> g, staging |-> st, w |-> NotWritten(g), parsed |-> <<>>]
     ELSE IF ~HeadExists(g1)
     THEN [git |-> g1, staging |-> st, w |-> NotWritten(g1), parsed |-> <<>>]
     ELSE IF traces = <<>>
     THEN [git |-> g1, staging |-> st, w |-> NotWritten(g1), parsed |-> traces]
     ELSE [git |-> w.git, staging |-> NoStaging,
           w |-> [w EXCEPT !.raised = FALSE], parsed |-> traces]

\* attachStagingTraces.
attachStagingTraces(g, st, i1, i2) ==
  LET g1 == ensureNotesRef(g)
      traces == StagedTraces(st.lines, g1.commits)
      w == writeTracesToNotes(g1, g1.commits, traces, i1, i2)
  IN IF ~st.exists
     THEN [git |-> g, staging |-> st, w |-> NotWritten(g), parsed |-> <<>>]
     ELSE IF ~HeadExists(g1)
     THEN [git |-> g1, staging |-> st, w |-> NotWritten(g1), parsed |-> <<>>]
     ELSE IF traces = <<>>
     THEN [git |-> g1, staging |-> st, w |-> NotWritten(g1), parsed |-> traces]
     ELSE IF w.raised
     THEN [git |-> w.git, staging |-> st, w |-> w, parsed |-> traces]
     ELSE [git |-> w.git, staging |-> NoStaging, w |-> w, parsed |-> traces]

AttachStagingTraces(i1, i2) ==
  LET a == attachStagingTraces(Cur, staging, i1, i2)
  IN /\ SetGit(a.git)
     /\ staging' = a.staging
     /\ UNCHANGED <<query, hook>>
     /\ last' = WriteObs("attach", a.w, a.parsed, i1, i2)

\* A line that is no record lands in the staging file (a write cut short).
StrayLine ==
  /\ staging.exists
  /\ Len(staging.lines) < MaxStaged
  /\ staging' = StagingAppend(staging, Malformed)
  /\ UNCHANGED <<commits, ref, notes>>
  /\ UNCHANGED <<query, hook>>
  /\ last' = Obs("stray")

\* The interference that can matter: the second only after the first.
Interferences == {<<"quiet", "quiet">>, <<"corrupt", "quiet">>, <<"corrupt", "corrupt">>}

Next ==
  \/ Commit
  \/ LegacyEnsureNotesRef
  \/ \E rev \in Revs, body \in ForeignBodies : ForeignNote(rev, body)
  \/ EnsureNotesRef
  \/ \E rev \in Revs, traces \in Batches, i \in Interferences :
       WriteTraces(rev, traces, i[1], i[2])
  \/ \E rev \in Revs : ReadTraces(rev)
  \/ \E from, to \in Revs : ReadTracesRange(from, to)
  \/ ReadAll

Spec == Init /\ [][Next]_vars

\* Captures, flushes and direct writes side by side.
NextCapture ==
  \/ Commit
  \/ EnsureNotesRef
  \/ StrayLine
  \/ \E trace \in Captures, i \in Interferences : AppendTrace(trace, i[1], i[2])
  \/ \E i \in Interferences : AttachStagingTraces(i[1], i[2])
  \/ \E rev \in Revs, traces \in CaptureBatches, i \in Interferences :
       WriteTraces(rev, traces, i[1], i[2])
  \/ \E rev \in Revs : ReadTraces(rev)
  \/ \E from, to \in Revs : ReadTracesRange(from, to)

SpecCapture == Init /\ [][NextCapture]_vars

\* Writes to the note of one commit, over the wider set of record shapes.
InitMerge ==
  /\ commits = 1
  /\ ref = "commit"
  /\ notes = EmptyNotes
  /\ staging = NoStaging
  /\ query = NoQuery
  /\ hook = NoHook
  /\ last = Obs("init")

NextMerge ==
  \E traces \in MergeBatches : WriteTraces(commits, traces, "quiet", "quiet")

SpecMerge == InitMerge /\ [][NextMerge]_vars

\* The flush alone, over the staging files captures before the first commit
\* can leave: with the reference as the current ensureNotesRef leaves it (a
\* bare tree), as the superseded one left it (broken), or removed since.
FlushLines == {T1, T2, T3, Malformed}

StagedFiles == UNION {[1..n -> FlushLines] : n \in 1..MaxFlush}

InitFlush ==
  /\ commits = 0
  /\ ref \in {"absent", "tree", "broken"}
  /\ notes = EmptyNotes
  /\ staging \in {[exists |-> TRUE, lines |-> f] : f \in StagedFiles}
  /\ query = NoQuery
  /\ hook = NoHook
  /\ last = Obs("init")

NextFlush ==
  \/ Commit
  \/ AttachStagingTraces("quiet", "quiet")

SpecFlush == InitFlush /\ [][NextFlush]_vars

\* What the flush does to each staging file in each repository without notes,
\* tabulated.
FlushTable ==
  [st \in {[exists |-> TRUE, lines |-> f] : f \in StagedFiles},
   rf \in {"absent", "tree", "broken", "commit"}, c \in 0..MaxCommits |->
     attachStagingTraces(Git(rf, EmptyNotes, c), st, "quiet", "quiet")]

\* The flush of a staging file that exists: AttachStagingTraces in the states
\* of SpecFlush where there is a file, read off the table.
FlushRuns ==
  /\ staging.exists
  /\ notes = EmptyNotes
  /\ LET a == FlushTable[staging, ref, commits]
     IN /\ SetGit(a.git)
        /\ staging' = a.staging
        /\ UNCHANGED <<query, hook>>
        /\ last' = WriteObs("attach", a.w, a.parsed, "quiet", "quiet")

\* Commits go on being made, and the post-commit hook runs the flush as long
\* as there is a staging file.
SpecFlushFair ==
  /\ SpecFlush
  /\ WF_vars(Commit)
  /\ WF_vars(FlushRuns)

--------------------------------------------------------------------------
\* The diff of a commit, as git prints it.  A line of text is the sequence of
\* its characters; a path and a line number count as one character each.

MaxLine == 2

MaxAdded == 2

StartsWith(line, prefix) ==
  Len(line) >= Len(prefix) /\ SubSeq(line, 1, Len(prefix)) = prefix

RECURSIVE Concat(_)
Concat(ss) == IF ss = <<>> THEN <<>> ELSE Head(ss) \o Concat(Tail(ss))

\* The contents of source lines: plain text, a line that begins with "++"
\* (++i;) and one that begins with "--" (a SQL or Lua comment).
PlainText == <<"x">>

Increment == <<"+", "+", "i">>

Comment == <<"-", "-", " ", "c">>

\* What a commit did to one file: the new-side start of its hunk, the lines
\* it removed and the lines it added.  status "mode": no line changed.
Change(p, st, c, rem, add) ==
  [path |-> p, status |-> st, start |-> c, removed |-> rem, added |-> add]

DevNull == "/dev/null"

MinusA == <<"-", "-", "-", " ", "a", "/">>

PlusB == <<"+", "+", "+", " ", "b", "/">>

DiffGitLine == <<"d", "i", "f", "f">>

HunkHeader(c) == <<"@", "@", c>>

\* git diff --unified=0 for one file.
FileDiff(fc) ==
  IF fc.status = "mode" THEN <<DiffGitLine>>
  ELSE <<DiffGitLine,
         IF fc.status = "added" THEN <<"-", "-", "-", " ", DevNull>>
         ELSE MinusA \o <<fc.path>>,
         PlusB \o <<fc.path>>,
         HunkHeader(fc.start)>>
       \o [k \in 1..Len(fc.removed) |-> <<"-">> \o fc.removed[k]]
       \o [k \in 1..Len(fc.added) |-> <<"+">> \o fc.added[k]]

UnifiedDiff(commit) == Concat([k \in 1..Len(commit) |-> FileDiff(commit[k])])

\* git diff --numstat: one line for each file the commit changed.
Numstat(commit) == [k \in 1..Len(commit) |-> commit[k].path]

\* The line numbers of the new file the commit touched: the added lines, and
\* the hunk's start for removed ones.
TrueChanges(fc) ==
  {fc.start + k - 1 : k \in 1..Len(fc.added)}
    \cup (IF fc.removed # <<>> THEN {fc.start} ELSE {})

\* files.find(...).changes.push(change)
PushChange(files, path, change) ==
  [files EXCEPT ![path] = Append(@, change)]

\* The loop of getCommitInfo over the lines of the detailed diff.
RECURSIVE ParseDiff(_, _, _, _)
ParseDiff(lines, currentFile, lineNumber, files) ==
  IF lines = <<>> THEN files
  ELSE LET line == Head(lines)
           rest == Tail(lines)
           found == currentFile \in DOMAIN files
       IN IF StartsWith(line, PlusB) \/ StartsWith(line, MinusA)
          THEN IF Len(line) > 6 /\ line[7] # DevNull
               THEN ParseDiff(rest, line[7], 0, files)
               ELSE ParseDiff(rest, currentFile, lineNumber, files)
          ELSE IF StartsWith(line, <<"@", "@">>)
          THEN ParseDiff(rest, currentFile, line[3], files)
          ELSE IF StartsWith(line, <<"+">>) /\ ~StartsWith(line, <<"+", "+", "+">>)
          THEN IF found
               THEN ParseDiff(rest, currentFile, lineNumber + 1,
                      PushChange(files, currentFile,
                                 [line |-> lineNumber, type |-> "added"]))
               ELSE ParseDiff(rest, currentFile, lineNumber, files)
          ELSE IF StartsWith(line, <<"-">>) /\ ~StartsWith(line, <<"-", "-", "-">>)
          THEN IF found
               THEN ParseDiff(rest, currentFile, lineNumber,
                      PushChange(files, currentFile,
                                 [line |-> lineNumber, type |-> "removed"]))
               ELSE ParseDiff(rest, currentFile, lineNumber, files)
          ELSE IF ~StartsWith(line, <<"@">>) /\ line # <<>>
          THEN ParseDiff(rest, currentFile, lineNumber + 1, files)
          ELSE ParseDiff(rest, currentFile, lineNumber, files)

\* getCommitInfo(...).files: each file of the numstat with the changes the
\* parser found for it.
getCommitInfo(commit) ==
  LET paths == Numstat(commit)
      parsed == ParseDiff(UnifiedDiff(commit), "", 0,
                          [p \in {paths[k] : k \in 1..Len(paths)} |-> <<>>])
  IN [k \in 1..Len(paths) |-> [path |-> paths[k], changes |-> parsed[paths[k]]]]

--------------------------------------------------------------------------
\* analyzeCommit.

\* The conversations recorded for a path, in the order the loops visit them.
PathConversations(traces, p) ==
  Concat([i \in 1..Len(traces) |->
    Concat([j \in 1..Len(traces[i].files) |->
      IF traces[i].files[j].path = p
      THEN traces[i].files[j].conversations ELSE <<>>])])

\* The ranges recorded for a path.
PathRanges(traces, p) ==
  LET convs == PathConversations(traces, p)
  IN Concat([k \in 1..Len(convs) |-> convs[k].ranges])

Overlaps(range, changes) ==
  \E k \in 1..Len(changes) :
    changes[k].line >= range.start_line /\ changes[k].line <= range.end_line

\* A variant that keeps a range only when a changed line falls into it.
KeepsOverlapping(range, changes) == Overlaps(range, changes)

Keeps(range, changes) == Overlaps(range, changes) \/ Len(changes) = 0

\* The entry pushed for a range: its lines with the conversation's contributor.
Emitted(range, conversation) ==
  [start_line |-> range.start_line, end_line |-> range.end_line,
   ctype |-> IF conversation.ctype # None THEN conversation.ctype ELSE "unknown",
   model_id |-> conversation.model_id]

ConversationEntries(conversation, changes) ==
  LET kept == SelectSeq(conversation.ranges, LAMBDA r : Keeps(r, changes))
  IN [k \in 1..Len(kept) |-> Emitted(kept[k], conversation)]

FileAnalysis(traces, fileChange) ==
  LET convs == PathConversations(traces, fileChange.path)
  IN [path |-> fileChange.path,
      ranges |-> Concat([k \in 1..Len(convs) |->
                   ConversationEntries(convs[k], fileChange.changes)]),
      models |-> {convs[k].model_id : k \in 1..Len(convs)} \ {None}]

\* A variant that makes an entry for every changed file.
EveryFile(fa) == TRUE

\* if (ranges.length > 0): only then the file gets an entry.
HasRanges(fa) == fa.ranges # <<>>

analyzeCommit(traces, files) ==
  SelectSeq([k \in 1..Len(files) |-> FileAnalysis(traces, files[k])], HasRanges)

\* The ranges analyze returns for a path.
Returned(result, p) ==
  Concat([k \in 1..Len(result) |->
    IF result[k].path = p THEN result[k].ranges ELSE <<>>])

--------------------------------------------------------------------------
\* getFileAttribution, validateTrace, generateReport.

\* The entry getFileAttribution pushes for a range.
Attributed(range, conversation) ==
  [start_line |-> range.start_line, end_line |-> range.end_line,
   ctype |-> IF conversation.ctype # None THEN conversation.ctype
             ELSE IF range.contributor # None THEN range.contributor
             ELSE "unknown",
   model_id |-> IF conversation.model_id # None THEN conversation.model_id
                ELSE range.contributor_model_id]

\* The ranges getFileAttribution collects for a path from a commit's traces.
getFileAttribution(traces, filePath) ==
  LET convs == PathConversations(traces, filePath)
  IN Concat([k \in 1..Len(convs) |->
       [r \in 1..Len(convs[k].ranges) |-> Attributed(convs[k].ranges[r], convs[k])]])

validateTrace(trace) == [valid |-> TraceRecordSchema(trace)]

\* Every conversation of every file of every record.
AllConversations(traces) ==
  Concat([i \in 1..Len(traces) |->
    Concat([j \in 1..Len(traces[i].files) |-> traces[i].files[j].conversations])])

RECURSIVE SumRanges(_)
SumRanges(convs) ==
  IF convs = <<>> THEN 0 ELSE Len(Head(convs).ranges) + SumRanges(Tail(convs))

ContributorTypeOf(conversation) ==
  IF conversation.ctype # None THEN conversation.ctype ELSE "unknown"

\* The ranges of the conversations of one contributor type.
Contributions(traces, type) ==
  SumRanges(SelectSeq(AllConversations(traces),
                      LAMBDA c : ContributorTypeOf(c) = type))

\* The paths of the files of the records.
ReportFiles(traces) ==
  {traces[i].files[j].path :
     <<i, j>> \in {x \in (1..Len(traces)) \X (1..2) : x[2] <= Len(traces[x[1]].files)}}

\* The ranges of the conversations of one model.
ModelCount(traces, model) ==
  SumRanges(SelectSeq(AllConversations(traces), LAMBDA c : c.model_id = model))

\* A variant that counts a tool once for every range of its records.
ToolCountPerRange(traces, name) ==
  SumRanges(AllConversations(SelectSeq(traces, LAMBDA t : t.tool = name)))

\* The records of one tool.
ToolCount(traces, name) == Len(SelectSeq(traces, LAMBDA t : t.tool = name))

generateReport(traces) ==
  LET convs == AllConversations(traces)
  IN [totalTraces |-> Len(traces),
      totalFiles |-> Cardinality(ReportFiles(traces)),
      aiContributions |-> Contributions(traces, "ai"),
      humanContributions |-> Contributions(traces, "human"),
      mixedContributions |-> Contributions(traces, "mixed"),
      models |-> [m \in {convs[k].model_id : k \in 1..Len(convs)} \ {None} |->
                    ModelCount(traces, m)],
      tools |-> [n \in {traces[i].tool : i \in 1..Len(traces)} \ {None} |->
                   ToolCount(traces, n)]]

--------------------------------------------------------------------------
\* Queries on the note of one commit.

Q1 == Rec(1, 1, "c1", <<File("a", <<Conv("u1", "ai", "m1", <<Rng(1, 1), Rng(2, 3)>>)>>)>>)

Q2 == Rec(2, 2, "c2", <<File("b", <<Conv(None, "human", None, <<Rng(1, 2)>>)>>)>>)

\* A handoff to a human inside an ai conversation.
Q3 ==
  Rec(3, 3, "c3",
      <<File("a", <<Conv("u3", "ai", "m1", <<RngBy(1, 2, "human", None), Rng(3, 3)>>)>>)>>)

\* A conversation without contributor whose range has one.
Q4 == Rec(4, 4, "c4", <<File("a", <<Conv(None, None, None, <<RngBy(1, 1, "ai", "m2")>>)>>)>>)

Q5 == Rec(5, 5, "c5", <<File("a", <<Conv("u5", "unknown", None, <<Rng(2, 2)>>)>>)>>)

\* A range that ends before it starts, and one that starts at line 0.
Q6 == Rec(6, 6, "c6", <<File("a", <<Conv("u6", "ai", "m1", <<Rng(2, 1)>>)>>)>>)

Q7 == Rec(7, 7, "c7", <<File("a", <<Conv("u7", "ai", "m1", <<Rng(0, 1)>>)>>)>>)

\* Records that name the tool that made them.
Q8 == [Q1 EXCEPT !.id = 8, !.tool = "cursor"]

Q9 == [Q2 EXCEPT !.id = 9, !.tool = "claude-code"]

QueryRecords == {Q1, Q2, Q3, Q4, Q5, Q6, Q7}

QueryBatches ==
  {<<Q1>>, <<Q1, Q2>>, <<Q3>>, <<Q4>>, <<Q5>>, <<Q1, Q5>>, <<Q6>>, <<Q7, Q1>>,
   <<Q8, Q9>>, <<Q8, Q5, Q9>>}

QueryPaths == {"a", "b"}

Adds ==
  UNION {[1..n -> {PlainText, Increment}] : n \in 0..MaxAdded}

Removes == {<<>>, <<PlainText>>, <<Comment>>}

\* What a commit can do to a file: change its mode, create it, or replace,
\* remove or insert lines at a hunk.
FileChanges(p) ==
  {Change(p, "mode", 1, <<>>, <<>>)}
    \cup {Change(p, "added", 1, <<>>, add) : add \in Adds \ {<<>>}}
    \cup {Change(p, "modified", c, rem, add) :
            <<c, rem, add>> \in
              {x \in (1..MaxLine) \X Removes \X Adds : x[2] # <<>> \/ x[3] # <<>>}}

QueryCommits ==
  {<<x>> : x \in FileChanges("a")}
    \cup {<<Change("b", "modified", 1, <<PlainText>>, <<PlainText>>)>>}
    \cup {<<Change("b", "modified", 1, <<PlainText>>, <<PlainText>>), x>> :
            x \in {Change("a", "mode", 1, <<>>, <<>>),
                   Change("a", "modified", MaxLine, <<>>, <<PlainText>>)}}

\* The traces the queries read: the note of the commit.
QueryTraces == readTracesFromNotes(Cur, 1).traces

InitQuery ==
  /\ commits = 1
  /\ ref = "commit"
  /\ notes \in {[EmptyNotes EXCEPT ![1] = ArrayBody(b)] : b \in QueryBatches}
  /\ staging = NoStaging
  /\ query \in {[diff |-> d, op |-> "none"] : d \in QueryCommits}
  /\ hook = NoHook
  /\ last = Obs("init")

AnalyzeCommit ==
  /\ query' = [diff |-> query.diff, op |-> "analyze",
               files |-> analyzeCommit(QueryTraces, getCommitInfo(query.diff))]
  /\ UNCHANGED <<commits, ref, notes, staging, last, hook>>

GetFileAttribution(filePath) ==
  /\ query' = [diff |-> query.diff, op |-> "attribution", path |-> filePath,
               ranges |-> getFileAttribution(QueryTraces, filePath)]
  /\ UNCHANGED <<commits, ref, notes, staging, last, hook>>

ValidateTrace(trace) ==
  /\ query' = [diff |-> query.diff, op |-> "validate", trace |-> trace,
               valid |-> validateTrace(trace).valid]
  /\ UNCHANGED <<commits, ref, notes, staging, last, hook>>

GenerateReport ==
  /\ query' = [diff |-> query.diff, op |-> "report",
               stats |-> generateReport(QueryTraces)]
  /\ UNCHANGED <<commits, ref, notes, staging, last, hook>>

NextQuery ==
  \/ AnalyzeCommit
  \/ \E filePath \in QueryPaths : GetFileAttribution(filePath)
  \/ \E trace \in QueryRecords : ValidateTrace(trace)
  \/ GenerateReport

SpecQuery == InitQuery /\ [][NextQuery]_vars

--------------------------------------------------------------------------
\* The flush in steps, next to captures.  The post-commit process reads the
\* staging file, writes the note and unlinks the file; a capture process can
\* run between the read and the write.

\* attachStagingTraces up to readFileSync: the reference is ensured, HEAD is
\* resolved and the lines of the file are in memory.
HookRead ==
  /\ hook.pc = "idle"
  /\ staging.exists
  /\ SetGit(ensureNotesRef(Cur))
  /\ hook' = IF HeadExists(Cur)
             THEN [pc |-> "read", rev |-> commits, lines |-> staging.lines]
             ELSE NoHook
  /\ UNCHANGED <<staging, query>>
  /\ last' = Obs("hookRead")

\* attachStagingTraces from the parsing of the lines on: the write of the
\* records read, and after a write that did not raise the unlink of the file
\* as it is by then.
HookWrite ==
  /\ hook.pc = "read"
  /\ LET traces == StagedTraces(hook.lines, hook.rev)
         w == writeTracesToNotes(Cur, hook.rev, traces, "quiet", "quiet")
     IN /\ SetGit(w.git)
        /\ staging' = IF traces # <<>> /\ ~w.raised THEN NoStaging ELSE staging
        /\ last' = WriteObs("attach", w, traces, "quiet", "quiet")
  /\ hook' = NoHook
  /\ UNCHANGED query

RaceFiles == {<<T1>>, <<T2>>, <<Malformed, T1>>}

InitRace ==
  /\ commits = 1
  /\ ref \in {"commit", "tree"}
  /\ notes = EmptyNotes
  /\ staging \in {[exists |-> TRUE, lines |-> f] : f \in RaceFiles}
  /\ last = Obs("init")
  /\ query = NoQuery
  /\ hook = NoHook

NextRace ==
  \/ Commit
  \/ HookRead
  \/ HookWrite
  \/ \E trace \in Captures, i \in Interferences : AppendTrace(trace, i[1], i[2])

SpecRace == InitRace /\ [][NextRace]_vars

--------------------------------------------------------------------------
\* Writes as an algebra on the stored records.

\* The repository after an undisturbed write of the list to HEAD.
Written(g, traces) == writeTracesToNotes(g, g.commits, traces, "quiet", "quiet").git

\* The records a read of HEAD gives.
Stored(g) == readTracesFromNotes(g, g.commits).traces

\* C1 as stated: for the stored content at hand and every record R, writing
\* [R] twice leaves the same set of records as writing it once.
C1_AsStated ==
  \A R \in MergeRecords :
    LET once == Stored(Written(Cur, <<R>>))
        twice == Stored(Written(Written(Cur, <<R>>), <<R>>))
    IN {twice[i] : i \in 1..Len(twice)} = {once[i] : i \in 1..Len(once)}

\* C2 as stated: the records stored for a revision have pairwise distinct ids.
C2_AsStated ==
  \A rev \in Revs :
    \A i, j \in 1..Len(notes[rev].items) :
      notes[rev].items[i].id = notes[rev].items[j].id => i = j

\* Which record attributes which range of which file to whom.
Attribution(traces) ==
  {<<traces[t].id, traces[t].files[f].path,
     traces[t].files[f].conversations[c].ctype,
     traces[t].files[f].conversations[c].model_id,
     traces[t].files[f].conversations[c].ranges[r].start_line,
     traces[t].files[f].conversations[c].ranges[r].end_line>> :
     <<t, f, c, r>> \in
       {x \in (1..Len(traces)) \X (1..2) \X (1..2) \X (1..4) :
          /\ x[2] <= Len(traces[x[1]].files)
          /\ x[3] <= Len(traces[x[1]].files[x[2]].conversations)
          /\ x[4] <= Len(traces[x[1]].files[x[2]].conversations[x[3]].ranges)}}

\* C5 as stated: for three records A, B, C where A and C have one conversation key,
\* writing [A, B] then [C] stores what writing [A, C] then [B] stores (here
\* compared up to the order of records, files, conversations and ranges).
C5_AsStated ==
  \A A \in MergeRecords, B \in MergeRecords, C \in MergeRecords :
    (ConversationKey(A) = ConversationKey(C) /\ Cardinality({A.id, B.id, C.id}) = 3) =>
      LET abc == Stored(Written(Written(Cur, <<A, B>>), <<C>>))
          acb == Stored(Written(Written(Cur, <<A, C>>), <<B>>))
      IN /\ Len(abc) = Len(acb)
         /\ Attribution(abc) = Attribution(acb)

NoDuplicateRanges(ranges) ==
  \A i, j \in 1..Len(ranges) : SameRange(ranges[i], ranges[j]) => i = j

\* The conversations as the records to write carry them.
InputConversations ==
  {R.files[f].conversations[c] :
     <<R, f, c>> \in
       {x \in MergeRecords \X (1..2) \X (1..2) :
          /\ x[2] <= Len(x[1].files)
          /\ x[3] <= Len(x[1].files[x[2]].conversations)}}

\* C6 as stated: a stored conversation that consolidation made by merging
\* conversations of one contributor (so that it is none of the conversations
\* handed in) has no two ranges with the same start and end line.
C6_AsStated ==
  \A t \in 1..Len(Stored(Cur)) :
    \A f \in 1..Len(Stored(Cur)[t].files) :
      \A c \in 1..Len(Stored(Cur)[t].files[f].conversations) :
        LET conv == Stored(Cur)[t].files[f].conversations[c]
        IN conv \notin InputConversations => NoDuplicateRanges(conv.ranges)

--------------------------------------------------------------------------
\* What is stored stays stored.

\* The ranges a read of the revision gives.
ReadRanges(g, rev) ==
  LET rd == readTracesFromNotes(g, rev)
  IN IF rd.raised THEN {} ELSE TracesRanges(rd.traces)

\* The ranges held in the notes of any revision or in the staging file.
Represented ==
  UNION {ReadRanges(Cur, rev) : rev \in Revs}
    \cup TracesRanges(ParseValid(staging.lines))

\* C3: in every step in which no other process rebinds the reference, every
\* range a read of a revision gave before the step it gives after it.
C3_NeverDeleted ==
  [][last'.quiet =>
       \A rev \in Revs : ReadRanges(Cur, rev) \subseteq ReadRanges(Cur', rev)]_vars

\* A write merged a record into the stored one of the same conversation.
C3_Witness ==
  /\ last.op = "write"
  /\ last.quiet
  /\ \E rev \in Revs : notes[rev] = ArrayBody(consolidateTraces(<<T1, T2>>))

\* C4: after a write, an append or a flush of the staging file that returns
\* without raising, every range of every valid record it was given (or read
\* from the staging file) is in the notes of a revision or in the staging file.
C4_NothingDropped ==
  (last.op \in {"write", "append", "attach"} /\ ~last.raised)
    => last.given \subseteq Represented

\* A flush stored the staged records on the new commit and cleared the file.
C4_Witness ==
  /\ last.op = "attach"
  /\ last.adds > 0
  /\ last.given # {}
  /\ ~last.raised
  /\ ~staging.exists
  /\ notes[commits] # NoNote

--------------------------------------------------------------------------
\* The self-healing retry of a write.

\* C7: a write whose first note-add fails with the broken-reference signature
\* makes exactly one more attempt, after the repair; if that attempt fails too
\* the write raises; a first failure of any other kind is not retried and
\* raises; no write makes more than two note-add attempts.
C7_BoundedRetry ==
  last.op = "write" =>
    /\ last.adds <= 2
    /\ last.first = "sig" <=> last.adds = 2
    /\ last.first = "other" => (last.adds = 1 /\ last.raised)
    /\ last.adds = 2 => (last.raised <=> last.retry # "ok")
    /\ last.adds = 2 /\ last.retry = "ok" => ref = "commit"

\* A write met a broken reference, repaired it and stored on the retry.
C7_Witness ==
  /\ last.op = "write"
  /\ last.first = "sig"
  /\ last.retry = "ok"
  /\ ~last.raised

--------------------------------------------------------------------------
\* What the reads do on failure.

--------------------------------------------------------------------------
\* ensureNotesRef.

\* C9: from every state of the reference and of the repository, a second
\* ensureNotesRef leaves what the first one left, and a call on a reference
\* that resolves and lists changes nothing; likewise for the superseded
\* version on a reference that resolves.
C9_EnsureIdempotent ==
  LET once == ensureNotesRef(Cur)
  IN /\ ensureNotesRef(once) = once
     /\ (ShowRefOk(Cur) /\ NotesListOk(Cur)) => once = Cur
     /\ last.op = "ensure" => once = Cur
     /\ LegacyEnsure(LegacyEnsure(Cur)) = LegacyEnsure(Cur)

\* ensureNotesRef ran on a healthy reference that carries a note.
C9_Witness ==
  /\ last.op = "ensure"
  /\ ~last.deleted
  /\ ref = "commit"
  /\ \E rev \in Revs : notes[rev] # NoNote

\* C10: a run of ensureNotesRef deletes the reference exactly when it exists
\* and does not list, and never leaves it in that state.
C10_BrokenRepaired ==
  [][last'.op = "ensure" =>
       /\ ref' # "broken"
       /\ last'.deleted <=> ref = "broken"]_vars

\* ensureNotesRef found a broken reference and deleted it.
C10_Witness ==
  /\ last.op = "ensure"
  /\ last.deleted

\* C11: a run of ensureNotesRef in a repository with no commit and no notes
\* reference leaves a reference that resolves and lists, and a read of any
\* revision returns without raising and gives no record.
C11_EmptyRepository ==
  [][(last'.op = "ensure" /\ commits = 0 /\ ref = "absent") =>
       /\ ShowRefOk(Cur')
       /\ NotesListOk(Cur')
       /\ \A rev \in Revs :
            /\ ~readTracesFromNotes(Cur', rev).raised
            /\ readTracesFromNotes(Cur', rev).traces = <<>>]_vars

\* ensureNotesRef created the reference before the first commit.
C11_Witness ==
  /\ last.op = "ensure"
  /\ commits = 0
  /\ ref = "tree"

--------------------------------------------------------------------------
\* The flush of the staging file.

\* The flush found lines to write, on a commit that has no records yet.
FlushCase ==
  /\ last'.op = "attach"
  /\ ~last'.raised
  /\ staging.exists
  /\ commits > 0
  /\ Len(ParseValid(staging.lines)) >= 1
  /\ Stored(Cur) = <<>>

C13_DeleteOnSuccess ==
  [][last'.op = "attach" =>
       /\ (staging.exists /\ ~staging'.exists) =>
            /\ commits > 0
            /\ last'.adds > 0
            /\ ~last'.raised
            /\ last'.given \subseteq ReadRanges(Cur', commits)
       /\ (last'.raised \/ commits = 0) => staging' = staging]_vars

\* The write of a flush raised and the staging file is still there.
C13_Witness ==
  /\ last.op = "attach"
  /\ last.raised
  /\ staging.exists
  /\ Len(ParseValid(staging.lines)) >= 1

\* The staging file holds the record.
Staged(t) == \E k \in 1..Len(staging.lines) : staging.lines[k] = t

\* The notes of some revision hold every range of the record.
Attached(t) == \E rev \in Revs : RecRanges(t) \subseteq ReadRanges(Cur, rev)

\* C14 as stated, for the record T1: with commits made and the flush run after
\* them, and nothing else touching the repository, a valid record in the
\* staging file is eventually attached to a revision and from then on the
\* file holds it no more.
C14_AsStated == Staged(T1) ~> [](Attached(T1) /\ ~Staged(T1))

\* C15 as stated, for captures that nothing interferes with: append stages
\* the record exactly when there is no commit, and with a commit the record is
\* in the note of the tip.
C15_AsStated ==
  (last.op = "append" /\ last.quiet) =>
    /\ last.staged <=> commits = 0
    /\ commits >= 1 => last.given \subseteq ReadRanges(Cur, commits)

--------------------------------------------------------------------------
\* The diff matcher.

\* The changed files analyzeCommit was given for the commit of the query.
QueryFiles == getCommitInfo(query.diff)

\* The change entries the matcher holds for a path: none for a path the
\* commit did not change.
ChangesOf(p) ==
  Concat([k \in 1..Len(QueryFiles) |->
    IF QueryFiles[k].path = p THEN QueryFiles[k].changes ELSE <<>>])

InCommit(p) == \E k \in 1..Len(QueryFiles) : QueryFiles[k].path = p

\* C16 as stated: for every file analyze returns at most the ranges recorded
\* for it, and as many as recorded when the matcher holds no changed line
\* for the file.
C16_AsStated ==
  query.op = "analyze" =>
    \A p \in QueryPaths :
      /\ Len(Returned(query.files, p)) <= Len(PathRanges(QueryTraces, p))
      /\ ChangesOf(p) = <<>> =>
            Len(Returned(query.files, p)) = Len(PathRanges(QueryTraces, p))

\* C16, amended: analyze returns at most the recorded ranges of a file; it
\* returns as many as recorded for a file among the commit's changed files
\* that has no changed line, and none for a file the commit did not change.
C16_Filter ==
  query.op = "analyze" =>
    \A p \in QueryPaths :
      /\ Len(Returned(query.files, p)) <= Len(PathRanges(QueryTraces, p))
      /\ (InCommit(p) /\ ChangesOf(p) = <<>>) =>
            Len(Returned(query.files, p)) = Len(PathRanges(QueryTraces, p))
      /\ ~InCommit(p) => Returned(query.files, p) = <<>>

\* A mode change of a file with two recorded ranges: both are returned.
C16_Witness ==
  /\ query.op = "analyze"
  /\ InCommit("a")
  /\ ChangesOf("a") = <<>>
  /\ Len(PathRanges(QueryTraces, "a")) = 2
  /\ Len(Returned(query.files, "a")) = 2

\* The recorded range contains a line the commit changed.
Touched(range, fc) ==
  \E n \in TrueChanges(fc) : n >= range.start_line /\ n <= range.end_line

\* The (start_line, end_line) pairs of a list of ranges.
Spans(ranges) ==
  [k \in 1..Len(ranges) |-> <<ranges[k].start_line, ranges[k].end_line>>]

\* C17 as stated: for each file the commit changed that has recorded ranges,
\* analyze returns exactly the recorded ranges that contain a line the
\* commit changed, or all of them when the commit changed no line of it.
C17_AsStated ==
  query.op = "analyze" =>
    \A k \in 1..Len(query.diff) :
      LET fc == query.diff[k]
          recorded == PathRanges(QueryTraces, fc.path)
      IN recorded # <<>> =>
           Spans(Returned(query.files, fc.path)) =
             Spans(SelectSeq(recorded,
                     LAMBDA r : Touched(r, fc) \/ TrueChanges(fc) = {}))

--------------------------------------------------------------------------
\* Contributor override.

\* The contributor a range is to be attributed to: its own when it has one,
\* the conversation's otherwise.
Effective(range, conversation) ==
  [start_line |-> range.start_line, end_line |-> range.end_line,
   ctype |-> IF range.contributor # None THEN range.contributor
             ELSE ContributorTypeOf(conversation),
   model_id |-> IF range.contributor # None THEN range.contributor_model_id
                ELSE conversation.model_id]

\* The entries of the ranges of a path that a file's changes keep, each with
\* its effective contributor.
EffectiveEntries(traces, p, changes) ==
  LET convs == PathConversations(traces, p)
  IN Concat([k \in 1..Len(convs) |->
       LET kept == SelectSeq(convs[k].ranges, LAMBDA r : Keeps(r, changes))
       IN [i \in 1..Len(kept) |-> Effective(kept[i], convs[k])]])

\* C18 as stated: the entries analyze emits for a changed file, and the
\* entries the per-file attribution query emits, carry for a range with a
\* contributor override the override's type and model identifier.
C18_AsStated ==
  /\ query.op = "analyze" =>
       \A k \in 1..Len(QueryFiles) :
         Returned(query.files, QueryFiles[k].path) =
           EffectiveEntries(QueryTraces, QueryFiles[k].path, QueryFiles[k].changes)
  /\ query.op = "attribution" =>
       query.ranges = EffectiveEntries(QueryTraces, query.path, <<>>)

--------------------------------------------------------------------------
\* Validation and aggregation.

\* Every range of the record has 1 <= start_line <= end_line.
OrderedRanges(t) ==
  \A f \in 1..Len(t.files) :
    \A c \in 1..Len(t.files[f].conversations) :
      \A r \in 1..Len(t.files[f].conversations[c].ranges) :
        LET range == t.files[f].conversations[c].ranges[r]
        IN 1 <= range.start_line /\ range.start_line <= range.end_line

\* C19 as stated: a record the validator accepts has 1 <= start_line <=
\* end_line in all its ranges.
C19_AsStated ==
  (query.op = "validate" /\ query.valid) => OrderedRanges(query.trace)

\* C20 as stated: the counters of the contributor types add up to the number
\* of ranges of all conversations of all files of all records read.
C20_AsStated ==
  query.op = "report" =>
    query.stats.aiContributions + query.stats.humanContributions
      + query.stats.mixedContributions = SumRanges(AllConversations(QueryTraces))

\* The list in another order.
Permuted(traces, perm) == [i \in 1..Len(traces) |-> traces[perm[i]]]

\* C21: the report of the records read is the report of every permutation
\* of them, and the counter of a tool is the number of records that name
\* the tool.
C21_OrderIndependent ==
  query.op = "report" =>
    /\ \A perm \in Permutations(1..Len(QueryTraces)) :
         generateReport(Permuted(QueryTraces, perm)) = query.stats
    /\ \A n \in DOMAIN query.stats.tools :
         query.stats.tools[n] =
           Cardinality({i \in 1..Len(QueryTraces) : QueryTraces[i].tool = n})

\* A report over three records, one of them with two ranges and a tool.
C21_Witness ==
  /\ query.op = "report"
  /\ Len(QueryTraces) = 3
  /\ QueryTraces[1].tool = "cursor"
  /\ query.stats.tools["cursor"] = 1
  /\ query.stats.aiContributions = 2
  /\ query.stats.totalFiles = 2

--------------------------------------------------------------------------
\* The read paths.

\* C22 as stated: a read of one revision, of a range or of everything leaves
\* the notes reference, the notes and the staging file as they were.
C22_AsStated ==
  [][last'.op \in {"read", "readRange", "readAll"} =>
       UNCHANGED <<ref, notes, staging>>]_vars

--------------------------------------------------------------------------
\* The records of a merged note.

\* C23 as stated: after a write that did not raise, no two records stored
\* for the revision have the same conversation key.
C23_AsStated ==
  (last.op = "write" /\ ~last.raised) =>
    \A i, j \in 1..Len(Stored(Cur)) :
      ConversationKey(Stored(Cur)[i]) = ConversationKey(Stored(Cur)[j]) => i = j

\* The least of the timestamps of the records.
RECURSIVE Earliest(_)
Earliest(traces) ==
  IF Len(traces) = 1 THEN traces[1].timestamp
  ELSE LET rest == Earliest(Tail(traces))
       IN IF traces[1].timestamp <= rest THEN traces[1].timestamp ELSE rest

\* C24 as stated: for the stored content at hand and every batch, the record
\* that consolidation makes of a group of two or more of the stored and the
\* new records carries the earliest timestamp of the group and the id of its
\* first member.
C24_AsStated ==
  \A batch \in MergeBatches :
    LET all == Stored(Cur) \o NewTraces(Stored(Cur), batch)
        out == consolidateTraces(all)
        keys == GroupKeys(all)
    IN \A k \in 1..Len(keys) :
         LET group == SelectSeq(all, LAMBDA t : ConversationKey(t) = keys[k])
         IN Len(group) >= 2 =>
              /\ out[k].timestamp = Earliest(group)
              /\ out[k].id = group[1].id

--------------------------------------------------------------------------
\* Reading a note that holds JSON.

\* C25: the read of a revision whose note is one record or a list of
\* records does not raise and returns the items that pass the schema, all
\* of them and in the order of the note.
C25_TolerantRead ==
  \A rev \in Revs :
    (NotesShow(Cur, rev).status = 0 /\ notes[rev].kind \in {"array", "object"}) =>
      /\ ~readTracesFromNotes(Cur, rev).raised
      /\ readTracesFromNotes(Cur, rev).traces =
           SelectSeq(notes[rev].items, TraceRecordSchema)

\* A read has just returned the valid record of a note whose first item is
\* no record; no other revision has a note.
C25_Witness ==
  /\ last.op = "read"
  /\ ~last.empty
  /\ \E rev \in Revs :
       /\ NotesShow(Cur, rev).status = 0
       /\ notes[rev] = ArrayBody(<<Malformed, T1>>)
       /\ \A other \in Revs \ {rev} : notes[other] = NoNote

--------------------------------------------------------------------------
\* The flush and the records it attaches.

\* C26 as stated: after a flush that wrote the staged records to the note of
\* HEAD, every record of that note names HEAD as its vcs revision.
C26_AsStated ==
  (last.op = "attach" /\ ~last.raised /\ last.adds > 0) =>
    \A i \in 1..Len(Stored(Cur)) :
      /\ Stored(Cur)[i].vcs # None
      /\ Stored(Cur)[i].vcs = commits

--------------------------------------------------------------------------
\* The diff parser and the matcher's output.

\* The line numbers of the changes of one type, in the order recorded.
LinesOf(changes, type) ==
  LET sel == SelectSeq(changes, LAMBDA ch : ch.type = type)
  IN [k \in 1..Len(sel) |-> sel[k].line]

\* C27 as stated: for the hunk of every file of the commit analysed, the
\* parser records the added lines at start, start + 1, ..., one for each
\* added line, and every removed line at the start of the hunk.
C27_AsStated ==
  query.op = "analyze" =>
    \A k \in 1..Len(query.diff) :
      LET fc == query.diff[k]
          changes == QueryFiles[k].changes
      IN /\ LinesOf(changes, "added") =
              [i \in 1..Len(fc.added) |-> fc.start + i - 1]
         /\ LinesOf(changes, "removed") =
              [i \in 1..Len(fc.removed) |-> fc.start]

\* C28: every entry analyze returns is for a file the commit changed and
\* holds at least one range, each of them recorded for that path; a changed
\* file without recorded ranges has no entry; no path has two entries.
C28_OutputDomain ==
  query.op = "analyze" =>
    /\ \A k \in 1..Len(query.files) :
         /\ \E c \in 1..Len(query.diff) : query.diff[c].path = query.files[k].path
         /\ query.files[k].ranges # <<>>
         /\ \A r \in 1..Len(query.files[k].ranges) :
              \E i \in 1..Len(PathRanges(QueryTraces, query.files[k].path)) :
                SameRange(PathRanges(QueryTraces, query.files[k].path)[i],
                          query.files[k].ranges[r])
    /\ \A c \in 1..Len(query.diff) :
         PathRanges(QueryTraces, query.diff[c].path) = <<>> =>
           \A k \in 1..Len(query.files) : query.files[k].path # query.diff[c].path
    /\ \A k, l \in 1..Len(query.files) :
         query.files[k].path = query.files[l].path => k = l

\* A commit that changed a and b, with ranges recorded for a only: one
\* entry, for a.
C28_Witness ==
  /\ query.op = "analyze"
  /\ Len(query.diff) = 2
  /\ PathRanges(QueryTraces, "b") = <<>>
  /\ Len(query.files) = 1
  /\ query.files[1].path = "a"

--------------------------------------------------------------------------
\* A write that raises.

\* C29 as stated: a write that raises, with no other process interfering,
\* leaves the notes reference as it was, and every revision's read gives
\* what it gave before.
C29_AsStated ==
  [][(last'.op = "write" /\ last'.raised /\ last'.quiet) =>
       /\ ref' = ref
       /\ \A rev \in Revs :
            readTracesFromNotes(Git(ref', notes', commits'), rev) =
              readTracesFromNotes(Cur, rev)]_vars

--------------------------------------------------------------------------
\* A capture during a flush.

\* The lines appended to the staging file since the flush read it.
AppendedSince == SubSeq(staging.lines, Len(hook.lines) + 1, Len(staging.lines))

\* C30 as stated: when the flush finishes, every record appended to the
\* staging file since the flush read it is in the notes of a revision or
\* still in the staging file.
C30_AsStated ==
  [][(hook.pc = "read" /\ hook'.pc = "idle") =>
       \A k \in 1..Len(AppendedSince) :
         \/ \E rev \in Revs :
              RecRanges(AppendedSince[k]) \subseteq
                ReadRanges(Git(ref', notes', commits'), rev)
         \/ \E n \in 1..Len(staging'.lines) : staging'.lines[n] = AppendedSince[k]]_vars

====
